---- MODULE Spec2Model ----
(***************************************************************************)
(* Model of src/MD/run_orphaned_cleanup.py: clean_orphaned_utxos, the      *)
(* orphaned-UTXO cleanup of the BTPC wallet tooling.                       *)
(*                                                                         *)
(* The file system is the persistent state: the UTXO store file, the       *)
(* wallet directory and the backup files next to the store.  One call of   *)
(* clean_orphaned_utxos is a sequence of steps, one per file-system        *)
(* operation of the function, so that what another process can observe     *)
(* between two operations is a state of the model.                         *)
(*                                                                         *)
(* A file's text is a sequence of tokens.  json.dump of a list writes      *)
(* "[", one object per entry, "]"; json.load accepts exactly the texts of  *)
(* that shape and raises on anything else (an empty or cut-off file).      *)
(***************************************************************************)
EXTENDS Integers, Sequences, FiniteSets, Bags, TLC

\* ------------------------------------------------------------- bounds
MaxUtxos == 3
MaxClock == 1
MaxCalls == 2

\* ------------------------------------------------------------- inputs
\* UTXO entries a store may hold.  A JSON object is a record; a key the
\* object lacks is a field the record lacks.
UtxoEntries ==
    { [address |-> "addrA", value_credits |-> 500, txid |-> "t1"],
      [address |-> "",      value_credits |-> -40, txid |-> "t2"],
      [value_credits |-> 300, txid |-> "t3"] }

\* File names of the wallet directory, as <<prefix, stem, extension>>.
WalletFileNames ==
    { <<"wallet_", "1", ".json">>,
      <<"wallet_", "2", ".json">>,
      <<"notes", "", ".json">> }

\* What a file of the wallet directory may hold: text that is no JSON
\* (valid = FALSE) or a JSON object.
WalletA      == [valid |-> TRUE, data |-> [public_key |-> "pkA", address |-> "addrA"]]
WalletPk     == [valid |-> TRUE, data |-> [public_key |-> "addrA", name |-> "w1"]]
WalletBlank  == [valid |-> TRUE, data |-> [public_key |-> "pkB", address |-> ""]]
Malformed    == [valid |-> FALSE]

FileChoices(name) ==
    IF name = <<"wallet_", "1", ".json">> THEN {WalletA, WalletPk, Malformed}
    ELSE IF name = <<"wallet_", "2", ".json">> THEN {WalletBlank}
    ELSE {Malformed}

AllWalletTexts == {WalletA, WalletPk, WalletBlank, Malformed}

\* Every content the wallet directory may have: any subset of the file
\* names, each file with one of its texts.
WalletDirs ==
    UNION { { f \in [names -> AllWalletTexts] : \A n \in names : f[n] \in FileChoices(n) }
            : names \in SUBSET WalletFileNames }

\* ------------------------------------------------------------- state
VARIABLES
    utxoExists,         \* utxo_file.exists()
    utxoFile,           \* the text of utxo_file (tokens)
    walletsDirExists,   \* wallets_dir is a directory
    walletFiles,        \* file name -> text, the files of wallets_dir
    backups,            \* timestamp -> text, the orphan_backup_* files
    clock,              \* datetime.now(), in whole seconds
    pc,                 \* where the running call is
    dry_run,            \* the call's argument
    utxos,              \* local: the parsed store
    wallet_identifiers, \* local: the identifier set
    owned_utxos,        \* local
    orphaned_utxos,     \* local
    report,             \* local: the dictionary returned
    error,              \* the exception the call raised, "" when none
    preStore,           \* history: the store text when the call began
    preExists,          \* history: whether the store existed when the call began
    preBackups,         \* history: the backup files when the call began
    written,            \* history: timestamps of the backups this call wrote
    utxoWasRead,        \* history: the call has read utxo_file
    dirWasListed,       \* history: the call has listed wallets_dir
    afterExec,          \* history: the call follows a completed execute call directly
    lastExecOk,         \* history: an execute call completed and nothing changed since
    calls               \* number of calls made

vars == << utxoExists, utxoFile, walletsDirExists, walletFiles, backups, clock,
           pc, dry_run, utxos, wallet_identifiers, owned_utxos, orphaned_utxos,
           report, error, preStore, preExists, preBackups, written, utxoWasRead,
           dirWasListed, afterExec, lastExecOk, calls >>

fsVars    == << utxoExists, utxoFile, walletsDirExists, walletFiles, backups >>
localVars == << utxos, wallet_identifiers, owned_utxos, orphaned_utxos, report >>
histVars  == << preStore, preExists, preBackups, written, utxoWasRead, dirWasListed, afterExec >>

\* ------------------------------------------------------------- JSON
OpenTok     == [t |-> "["]
CloseTok    == [t |-> "]"]
ObjTok(e)   == [t |-> "obj", v |-> e]

\* json.dump(list, f, indent=2): the text of a list of objects.
Dumps(list) == <<OpenTok>> \o [i \in 1..Len(list) |-> ObjTok(list[i])] \o <<CloseTok>>

\* Whether json.load accepts the text.
WellFormed(text) ==
    /\ Len(text) >= 2
    /\ text[1] = OpenTok
    /\ text[Len(text)] = CloseTok
    /\ \A i \in 2..(Len(text) - 1) : text[i].t = "obj"

\* json.load(f) of a text it accepts.
Loads(text) == [i \in 1..(Len(text) - 2) |-> text[i + 1].v]

EmptyReport == [total_utxos |-> 0, owned_utxos |-> 0, orphaned_utxos |-> 0,
                orphaned_value_credits |-> 0]

\* All stores of at most MaxUtxos entries.
Stores == UNION { [1..n -> UtxoEntries] : n \in 0..MaxUtxos }

Init ==
    /\ utxoExists \in BOOLEAN
    /\ utxoFile \in IF utxoExists THEN { Dumps(s) : s \in Stores } ELSE { <<>> }
    /\ walletsDirExists \in BOOLEAN
    /\ walletFiles \in IF walletsDirExists THEN WalletDirs ELSE { << >> }
    /\ backups = << >>
    /\ clock = 0
    /\ pc = "idle"
    /\ dry_run = TRUE
    /\ utxos = << >>
    /\ wallet_identifiers = {}
    /\ owned_utxos = << >>
    /\ orphaned_utxos = << >>
    /\ report = EmptyReport
    /\ error = ""
    /\ preStore = << >>
    /\ preExists = FALSE
    /\ preBackups = << >>
    /\ written = {}
    /\ utxoWasRead = FALSE
    /\ dirWasListed = FALSE
    /\ afterExec = FALSE
    /\ lastExecOk = FALSE
    /\ calls = 0

\* ------------------------------------------------------------- helpers
\* filename.startswith('wallet_') and filename.endswith('.json')
NameMatches(name) == name[1] = "wallet_" /\ name[3] = ".json"

\* The identifiers one wallet file adds to the set.
IdentifiersOf(wallet_data) ==
    (IF "public_key" \in DOMAIN wallet_data THEN {wallet_data.public_key} ELSE {})
    \cup
    (IF "address" \in DOMAIN wallet_data THEN {wallet_data.address} ELSE {})

\* The loop over os.listdir(wallets_dir): the identifier set, or ok = FALSE
\* when json.load raises on a file whose name matches.
RECURSIVE ScanWallets(_, _, _)
ScanWallets(names, files, ids) ==
    IF names = {} THEN [ok |-> TRUE, ids |-> ids]
    ELSE LET n == CHOOSE x \in names : TRUE
         IN  IF ~NameMatches(n) THEN ScanWallets(names \ {n}, files, ids)
             ELSE IF ~files[n].valid THEN [ok |-> FALSE, ids |-> ids]
             ELSE ScanWallets(names \ {n}, files, ids \cup IdentifiersOf(files[n].data))

\* Mutant: a missing directory lists as an empty one.
WalletsDirListable_Always == TRUE

\* os.listdir(wallets_dir) returns a listing.
WalletsDirListable == walletsDirExists

\* utxo.get('address', '')
AddressOf(utxo) == IF "address" \in DOMAIN utxo THEN utxo.address ELSE ""

\* utxo.get('value_credits', 0)
ValueOf(utxo) == IF "value_credits" \in DOMAIN utxo THEN utxo.value_credits ELSE 0

\* address in wallet_identifiers
IsOwned(utxo, ids) == AddressOf(utxo) \in ids

\* Mutant: the value is accumulated before the membership test.
PartitionStep_SumAll(acc, utxo, ids) ==
    IF AddressOf(utxo) \in ids
    THEN [acc EXCEPT !.value = @ + ValueOf(utxo), !.owned = Append(@, utxo)]
    ELSE [acc EXCEPT !.value = @ + ValueOf(utxo), !.orphaned = Append(@, utxo)]

\* One iteration of the partition loop.
PartitionStep(acc, utxo, ids) ==
    IF IsOwned(utxo, ids)
    THEN [acc EXCEPT !.owned = Append(@, utxo)]
    ELSE [acc EXCEPT !.value = @ + ValueOf(utxo), !.orphaned = Append(@, utxo)]

RECURSIVE PartitionLoop(_, _, _, _)
PartitionLoop(list, i, ids, acc) ==
    IF i > Len(list) THEN acc
    ELSE PartitionLoop(list, i + 1, ids, PartitionStep(acc, list[i], ids))

MakeReport(acc) ==
    [total_utxos            |-> Len(acc.owned) + Len(acc.orphaned),
     owned_utxos            |-> Len(acc.owned),
     orphaned_utxos         |-> Len(acc.orphaned),
     orphaned_value_credits |-> acc.value]

\* Mutant: the dry_run test is dropped.
NeedsCleanup_IgnoresDryRun(dry, rep) == rep.orphaned_utxos > 0

\* Mutant: the orphaned_utxos > 0 test is dropped.
NeedsCleanup_NoOrphanTest(dry, rep) == ~dry

\* if not dry_run and report['orphaned_utxos'] > 0
NeedsCleanup(dry, rep) == ~dry /\ rep.orphaned_utxos > 0

\* Mutant: the backup is taken of the cleaned list, not of the file.
BackupContents_Cleaned == Dumps(owned_utxos)

\* What shutil.copy2(utxo_file, backup_file) copies.
BackupContents == utxoFile

\* Mutant: the wrong list is dumped.
StoreTextToWrite_Orphaned == Dumps(orphaned_utxos)

\* What json.dump(owned_utxos, f, indent=2) writes.
StoreTextToWrite == Dumps(owned_utxos)

\* The call raises: nothing is returned.
Raise(e) ==
    /\ pc' = "failed"
    /\ error' = e
    /\ lastExecOk' = FALSE

\* ------------------------------------------------------------- the call
\* clean_orphaned_utxos(utxo_file, wallets_dir, dry_run=d) begins.
Call(d) ==
    /\ pc = "idle"
    /\ calls < MaxCalls
    /\ calls' = calls + 1
    /\ dry_run' = d
    /\ utxos' = << >>
    /\ wallet_identifiers' = {}
    /\ owned_utxos' = << >>
    /\ orphaned_utxos' = << >>
    /\ report' = EmptyReport
    /\ preStore' = utxoFile
    /\ preExists' = utxoExists
    /\ preBackups' = backups
    /\ written' = {}
    /\ utxoWasRead' = FALSE
    /\ dirWasListed' = FALSE
    /\ afterExec' = lastExecOk
    /\ IF utxoExists
       THEN pc' = "read_utxo" /\ error' = "" /\ UNCHANGED lastExecOk
       ELSE Raise("UtxoFileNotFound")
    /\ UNCHANGED << fsVars, clock >>

ReadUtxoFile ==
    /\ pc = "read_utxo"
    /\ utxoWasRead' = TRUE
    /\ IF WellFormed(utxoFile)
       THEN /\ utxos' = Loads(utxoFile)
            /\ pc' = "list_wallets"
            /\ UNCHANGED << error, lastExecOk >>
       ELSE /\ Raise("UtxoJSONDecodeError")
            /\ UNCHANGED utxos
    /\ UNCHANGED << fsVars, clock, dry_run, wallet_identifiers, owned_utxos,
                    orphaned_utxos, report, preStore, preExists, preBackups, written,
                    dirWasListed, afterExec, calls >>

BuildWalletIdentifiers ==
    /\ pc = "list_wallets"
    /\ IF ~WalletsDirListable
       THEN /\ Raise("WalletsDirNotFound")
            /\ UNCHANGED << wallet_identifiers, dirWasListed >>
       ELSE LET scan == ScanWallets(DOMAIN walletFiles, walletFiles, {})
            IN  /\ dirWasListed' = TRUE
                /\ IF scan.ok
                   THEN /\ wallet_identifiers' = scan.ids
                        /\ pc' = "partition"
                        /\ UNCHANGED << error, lastExecOk >>
                   ELSE /\ Raise("WalletJSONDecodeError")
                        /\ UNCHANGED wallet_identifiers
    /\ UNCHANGED << fsVars, clock, dry_run, utxos, owned_utxos, orphaned_utxos,
                    report, preStore, preExists, preBackups, written, utxoWasRead,
                    afterExec, calls >>

PartitionAndReport ==
    /\ pc = "partition"
    /\ LET acc == PartitionLoop(utxos, 1, wallet_identifiers,
                                [owned |-> << >>, orphaned |-> << >>, value |-> 0])
           rep == MakeReport(acc)
       IN  /\ owned_utxos' = acc.owned
           /\ orphaned_utxos' = acc.orphaned
           /\ report' = rep
           /\ IF NeedsCleanup(dry_run, rep)
              THEN pc' = "backup" /\ UNCHANGED lastExecOk
              ELSE pc' = "done" /\ lastExecOk' = (IF dry_run THEN lastExecOk ELSE TRUE)
    /\ UNCHANGED << fsVars, clock, dry_run, utxos, wallet_identifiers, error,
                    histVars, calls >>

CreateBackup ==
    /\ pc = "backup"
    /\ backups' = (clock :> BackupContents) @@ backups
    /\ written' = written \cup {clock}
    /\ pc' = "open_write"
    /\ UNCHANGED << utxoExists, utxoFile, walletsDirExists, walletFiles, clock,
                    dry_run, localVars, error, preStore, preExists, preBackups, utxoWasRead,
                    dirWasListed, afterExec, lastExecOk, calls >>

BackupFails ==
    /\ pc = "backup"
    /\ Raise("BackupCopyError")
    /\ UNCHANGED << fsVars, clock, dry_run, localVars, histVars, calls >>

OpenForWrite ==
    /\ pc = "open_write"
    /\ utxoFile' = << >>
    /\ pc' = "dump"
    /\ UNCHANGED << utxoExists, walletsDirExists, walletFiles, backups, clock,
                    dry_run, localVars, error, histVars, lastExecOk, calls >>

DumpChunk ==
    /\ pc = "dump"
    /\ Len(utxoFile) < Len(StoreTextToWrite)
    /\ utxoFile' = Append(utxoFile, StoreTextToWrite[Len(utxoFile) + 1])
    /\ UNCHANGED << utxoExists, walletsDirExists, walletFiles, backups, clock, pc,
                    dry_run, localVars, error, histVars, lastExecOk, calls >>

CloseAndReturn ==
    /\ pc = "dump"
    /\ Len(utxoFile) = Len(StoreTextToWrite)
    /\ pc' = "done"
    /\ lastExecOk' = TRUE
    /\ UNCHANGED << fsVars, clock, dry_run, localVars, error, histVars, calls >>

StoreWriteFails ==
    /\ pc \in {"open_write", "dump"}
    /\ Raise("StoreWriteError")
    /\ UNCHANGED << fsVars, clock, dry_run, localVars, histVars, calls >>

\* return report, or the exception reaches the caller: the frame is gone.
Return ==
    /\ pc \in {"done", "failed"}
    /\ pc' = "idle"
    /\ dry_run' = TRUE
    /\ utxos' = << >>
    /\ wallet_identifiers' = {}
    /\ owned_utxos' = << >>
    /\ orphaned_utxos' = << >>
    /\ report' = EmptyReport
    /\ error' = ""
    /\ preStore' = << >>
    /\ preExists' = FALSE
    /\ preBackups' = << >>
    /\ written' = {}
    /\ utxoWasRead' = FALSE
    /\ dirWasListed' = FALSE
    /\ afterExec' = FALSE
    /\ UNCHANGED << fsVars, clock, lastExecOk, calls >>

\* ------------------------------------------------------------- environment
\* The clock advances.  The call reads it once (line 74), so a second that
\* passes during a call is one that passes before or after it.
Tick ==
    /\ pc = "idle"
    /\ clock < MaxClock
    /\ clock' = clock + 1
    /\ UNCHANGED << fsVars, pc, dry_run, localVars, error, histVars, lastExecOk, calls >>

\* Between two calls the node records a new output in the store.
ExternalAddUtxo(e) ==
    /\ pc = "idle"
    /\ utxoExists
    /\ WellFormed(utxoFile)
    /\ Len(Loads(utxoFile)) < MaxUtxos
    /\ utxoFile' = Dumps(Append(Loads(utxoFile), e))
    /\ lastExecOk' = FALSE
    /\ UNCHANGED << utxoExists, walletsDirExists, walletFiles, backups, clock, pc,
                    dry_run, localVars, error, histVars, calls >>

\* Between two calls fix_wallet_w2_address.py gives a wallet a new address:
\* wallet_data['address'] = new_address, then the file is written back.
NewAddress == "addrNew"

FixWalletAddress(n) ==
    /\ pc = "idle"
    /\ walletsDirExists
    /\ n \in DOMAIN walletFiles
    /\ n[3] = ".json"
    /\ walletFiles[n].valid
    /\ "address" \in DOMAIN walletFiles[n].data
    /\ walletFiles[n].data.address # NewAddress
    /\ walletFiles' = [walletFiles EXCEPT ![n].data.address = NewAddress]
    /\ lastExecOk' = FALSE
    /\ UNCHANGED << utxoExists, utxoFile, walletsDirExists, backups, clock, pc,
                    dry_run, localVars, error, histVars, calls >>

\* One step of a call of clean_orphaned_utxos in which no copy or write fails.
CallStep ==
    \/ \E d \in BOOLEAN : Call(d)
    \/ ReadUtxoFile
    \/ BuildWalletIdentifiers
    \/ PartitionAndReport
    \/ CreateBackup
    \/ OpenForWrite
    \/ DumpChunk
    \/ CloseAndReturn
    \/ Return

\* shutil.copy2, open or json.dump raises OSError.
FaultStep ==
    \/ BackupFails
    \/ StoreWriteFails

\* Cleanup runs, with failing copies and writes, while wallets are re-addressed.
Next ==
    \/ CallStep
    \/ FaultStep
    \/ Tick
    \/ \E n \in WalletFileNames : FixWalletAddress(n)

Spec == Init /\ [][Next]_vars

\* Cleanup runs, no copy or write failing, while the node records new
\* outputs in the store.
NextDeposits ==
    \/ CallStep
    \/ Tick
    \/ \E e \in UtxoEntries : ExternalAddUtxo(e)

SpecDeposits == Init /\ [][NextDeposits]_vars

\* ------------------------------------------------------------- properties
Executing == pc # "idle" /\ ~dry_run

Partitioned == pc \in {"backup", "open_write", "dump", "done"}
               \/ (pc = "failed" /\ error \in {"BackupCopyError", "StoreWriteError"})

\* The entries of a list whose address is in ids, in the list's order.
Kept(list, ids) == SelectSeq(list, LAMBDA e : AddressOf(e) \in ids)

\* The entries of a list whose address is not in ids, in the list's order.
Dropped(list, ids) == SelectSeq(list, LAMBDA e : AddressOf(e) \notin ids)

\* A list as a multiset.
SeqBag(list) ==
    [e \in {list[i] : i \in DOMAIN list} |-> Cardinality({i \in DOMAIN list : list[i] = e})]

RECURSIVE SumValues(_)
SumValues(list) ==
    IF list = << >> THEN 0 ELSE ValueOf(Head(list)) + SumValues(Tail(list))

\* The identifiers of the wallet files that match the naming convention and parse.
ValidIdentifiers ==
    UNION { IdentifiersOf(walletFiles[n].data) :
            n \in {m \in DOMAIN walletFiles : NameMatches(m) /\ walletFiles[m].valid} }

\* This call wrote exactly one backup file and it holds the store text of
\* before the call.
OneBackupOfPreStore ==
    /\ Cardinality(written) = 1
    /\ \A ts \in written : ts \in DOMAIN backups /\ backups[ts] = preStore
    /\ \A ts \in DOMAIN backups \ written : ts \in DOMAIN preBackups /\ backups[ts] = preBackups[ts]

\* C1: an execute call that finds orphaned entries writes exactly one backup
\* file, holding the store text of before the call, and the store file does
\* not change before that backup is complete; no backup, no change.
C1_BackupBeforeMutation ==
    /\ (pc # "idle" /\ utxoFile # preStore) => OneBackupOfPreStore
    /\ (pc = "done" /\ ~dry_run /\ report.orphaned_utxos > 0) => OneBackupOfPreStore
    /\ (pc = "failed" /\ error = "BackupCopyError") => utxoFile = preStore /\ written = {}

C1_Witness ==
    /\ pc = "done" /\ ~dry_run /\ report.orphaned_utxos > 0
    /\ utxoFile # preStore
    /\ DOMAIN preBackups # {}

\* C2: a dry-run call leaves the store file as it was and creates no
\* backup file, at every point of the call and in every call.
C2_DryRunReadOnly ==
    (pc # "idle" /\ dry_run) =>
        /\ utxoFile = preStore
        /\ utxoExists = preExists
        /\ backups = preBackups
        /\ written = {}

C2_Witness ==
    /\ pc = "done" /\ dry_run /\ calls = 2
    /\ report.orphaned_utxos > 0

\* C3: after an execute call that returns, the store holds exactly the
\* entries of the store of before the call whose address is in the
\* identifier set of the call, in their order and unchanged, so every
\* address in it is in that set.
C3_StoreIsOwnedEntries ==
    (pc = "done" /\ ~dry_run) =>
        /\ wallet_identifiers = ValidIdentifiers
        /\ WellFormed(utxoFile)
        /\ Loads(utxoFile) = Kept(Loads(preStore), wallet_identifiers)
        /\ \A i \in 1..Len(Loads(utxoFile)) :
               AddressOf(Loads(utxoFile)[i]) \in wallet_identifiers

C3_Witness ==
    /\ pc = "done" /\ ~dry_run
    /\ Len(Loads(utxoFile)) = 2
    /\ Len(Loads(preStore)) = 3
    /\ Loads(utxoFile)[1] # Loads(utxoFile)[2]
    /\ Loads(preStore)[2] \notin {Loads(utxoFile)[1], Loads(utxoFile)[2]}

\* C4: at every point of an execute call the store file holds either the
\* complete text of before the call or the complete text of the owned list.
C4_AtomicReplace ==
    Executing => (utxoFile = preStore \/ (Partitioned /\ utxoFile = Dumps(owned_utxos)))

\* C5: an execute call that follows a completed execute call, the wallet
\* store and the store unchanged in between, does nothing: it reports no
\* orphaned entry, leaves the store file as it is and creates no backup.
C5_ExecuteIdempotent ==
    (afterExec /\ Executing) =>
        /\ pc \in {"read_utxo", "list_wallets", "partition", "done"}
        /\ utxoFile = preStore
        /\ backups = preBackups
        /\ written = {}
        /\ (pc = "done" => report.orphaned_utxos = 0)

C5_Witness ==
    /\ afterExec /\ Executing /\ pc = "done"
    /\ DOMAIN backups # {}
    /\ report.total_utxos > 0

\* C6: the partition puts every entry in exactly one of owned (address in
\* the set) and orphaned (address not in the set); together they are the
\* store as multisets; the counts add up to the length of the store and
\* orphaned_value_credits is the integer sum over the orphaned entries.
C6_Partition ==
    Partitioned =>
        /\ owned_utxos = Kept(utxos, wallet_identifiers)
        /\ orphaned_utxos = Dropped(utxos, wallet_identifiers)
        /\ SeqBag(owned_utxos) (+) SeqBag(orphaned_utxos) = SeqBag(utxos)
        /\ {owned_utxos[i] : i \in DOMAIN owned_utxos}
             \cap {orphaned_utxos[i] : i \in DOMAIN orphaned_utxos} = {}
        /\ report.total_utxos = report.owned_utxos + report.orphaned_utxos
        /\ report.total_utxos = Len(utxos)
        /\ report.owned_utxos = Len(owned_utxos)
        /\ report.orphaned_utxos = Len(orphaned_utxos)
        /\ report.orphaned_value_credits = SumValues(orphaned_utxos)

C6_Witness ==
    /\ pc = "done"
    /\ Len(owned_utxos) = 1
    /\ Len(orphaned_utxos) = 2
    /\ orphaned_utxos[1] # orphaned_utxos[2]
    /\ report.orphaned_value_credits = 260

\* C7: a wallet file that does not parse is skipped: the build of the
\* identifier set does not abort and the set holds the identifiers of every
\* wallet file that parses.
C7_LenientIndexBuild ==
    /\ ~(pc = "failed" /\ error = "WalletJSONDecodeError")
    /\ (pc \in {"partition", "backup", "open_write", "dump", "done"})
           => ValidIdentifiers \subseteq wallet_identifiers

C9_BackupsNeverLost ==
    [][\A ts \in DOMAIN backups : ts \in DOMAIN backups' /\ backups'[ts] = backups[ts]]_vars

\* C10: the identifier set holds no empty string, and an entry whose
\* address is missing or empty is orphaned, never owned.
C10_EmptyAddressOrphaned ==
    /\ (pc \in {"partition", "backup", "open_write", "dump", "done"})
           => "" \notin wallet_identifiers
    /\ Partitioned =>
           \A i \in 1..Len(utxos) :
               AddressOf(utxos[i]) = "" =>
                   /\ \E j \in 1..Len(orphaned_utxos) : orphaned_utxos[j] = utxos[i]
                   /\ \A j \in 1..Len(owned_utxos) : owned_utxos[j] # utxos[i]
====
